---- MODULE Spec2Model ----
(***************************************************************************)
(* A model of the reader-writer lock of rwlock/src/lib.rs.                 *)
(*                                                                         *)
(* One RwLock<u64> is shared by NThreads threads.  Thread t performs       *)
(* quota[t] operations; an operation is either                             *)
(*     { let g = lock.read();  let snapshot = *g; }      or                *)
(*     { let mut g = lock.write();  *g += 1; }                             *)
(* and the guard is dropped at the end of the block.  One action of the    *)
(* model is one atomic access to the state word, one call of the parking   *)
(* facility (wait, wake_one, wake_all) or one access to the inner value.   *)
(*                                                                         *)
(* The state word is an AtomicU32; the model keeps its width as StateBits  *)
(* bits, so that the writer sentinel u32::MAX becomes 2^StateBits - 1.     *)
(* Atomic accesses act on the latest value of the word.  The inner value   *)
(* is a plain (non-atomic) location.  Every thread has a view of it: the   *)
(* last write it knows of, and the threads whose reads it does not know    *)
(* of.  Knowledge moves between threads only along a release operation on  *)
(* the state word that an acquire operation reads from.  An access that is *)
(* not ordered after a conflicting access is a data race: a racing read    *)
(* may observe any value written since the reader's view.                  *)
(*                                                                         *)
(* write is declared with &mut self, so safe Rust cannot call it on a lock *)
(* that other threads share.  The model lets every thread call read and    *)
(* write on the one lock: it is the protocol on the state word, not the    *)
(* borrow, that is modelled here.                                          *)
(*                                                                         *)
(* Specifications.  Spec and FairSpec: MaxTotal operations in all, Spec    *)
(* with no fairness and FairSpec with every thread scheduled fairly.       *)
(* WakeSpec: one operation more, so that four threads meet in the lock.    *)
(* OverflowSpec: the lock started with ReadGuards leaked up to the reader  *)
(* bound.  StarveSpec: one writer against two readers that never stop.     *)
(***************************************************************************)
EXTENDS Integers, Sequences, FiniteSets

\* ---------------------------------------------------------------- bounds
NThreads == 4
MaxOps == 2
MaxTotal == 3
StateBits == 3

Threads == 1..NThreads

\* u32::MAX of the (scaled) state word: the writer sentinel.
WRITER_SENTINEL == 2^StateBits - 1

\* Value given to RwLock::new.
InitialValue == 0

VARIABLES
    quota,      \* quota[t]: operations thread t is going to perform
    state,      \* RwLock.state: number of readers, or WRITER_SENTINEL
    hist,       \* RwLock.value: every value stored so far, the last is current
    msgView,    \* view of the inner value published with the state word
    view,       \* view[t]: index into hist of the last write t knows of
    msgUnseen,  \* threads whose reads the state word does not publish
    unseen,     \* unseen[t]: threads that made reads t does not know of
    raced,      \* an access to the inner value raced with a conflicting one
    pc,         \* pc[t]: where thread t is
    s,          \* s[t]: the local s of read / write
    tmp,        \* tmp[t]: value read by `*g += 1` before it stores
    snap,       \* snap[t]: last snapshot t took under a ReadGuard (-1: none)
    ops,        \* ops[t]: operations t has completed
    wr,         \* wr[t]: increments t has completed
    blockers,   \* blockers[t]: holders of guards live since t made its call
    found,      \* found[t]: conflicting guards that were live when t made its
                \* call (kept until t uses the guard it obtains)
    committed   \* value left by the most recent WriteGuard that was dropped

vars == <<quota, state, hist, msgView, view, msgUnseen, unseen, raced, pc, s, tmp, snap, ops, wr, blockers, found, committed>>

Max(a, b) == IF a >= b THEN a ELSE b

\* Current inner value.
Value == hist[Len(hist)]

\* ---------------------------------------------------------------- guards
ReadHeld == {"r_held", "r_seen"}
WriteHeld == {"w_held", "w_write", "w_drop"}

HoldsRead(t) == pc[t] \in ReadHeld
HoldsWrite(t) == pc[t] \in WriteHeld
Readers == {t \in Threads : HoldsRead(t)}
Writers == {t \in Threads : HoldsWrite(t)}
Parked == {t \in Threads : pc[t] \in {"r_parked", "w_parked"}}

\* ---------------------------------------------------------------- memory
\* What a dereference of the inner value by t can yield.
Observable(t) == {hist[i] : i \in view[t]..Len(hist)}

\* Threads that have read the inner value.
EverRead == {t \in Threads : snap[t] # -1 \/ wr[t] > 0 \/ pc[t] \in {"w_write", "w_drop", "w_wake"}}

\* A shared dereference by t: it races if t does not know of the last write;
\* no other thread knows of this read yet.
LoadValue(t) ==
    /\ raced' = (raced \/ view[t] < Len(hist))
    /\ unseen' = [u \in Threads |-> IF u = t THEN unseen[u] ELSE unseen[u] \cup {t}]
    /\ msgUnseen' = msgUnseen \cup {t}

\* An exclusive dereference by t storing v: it races if t does not know of the
\* last write or of some read.
StoreValue(t, v) ==
    /\ raced' = (raced \/ view[t] < Len(hist) \/ unseen[t] # {})
    /\ hist' = Append(hist, v)
    /\ view' = [view EXCEPT ![t] = Len(hist) + 1]

\* Mutant of Acquire: the compare_exchange succeeds with Ordering::Relaxed.
AcquireRelaxed(t) == UNCHANGED <<view, unseen>>

\* Ordering::Acquire on a successful compare_exchange: t obtains what was
\* published with the value it read.
Acquire(t) ==
    /\ view' = [view EXCEPT ![t] = Max(view[t], msgView)]
    /\ unseen' = [unseen EXCEPT ![t] = unseen[t] \cap msgUnseen]

\* Ordering::Release on fetch_sub (a read-modify-write: it continues the
\* release sequence it reads from and adds what t knows).
ReleaseRmw(t) ==
    /\ msgView' = Max(msgView, view[t])
    /\ msgUnseen' = msgUnseen \cap unseen[t]

\* Mutant of ReleaseStore: the store is made with Ordering::Relaxed.
ReleaseStoreRelaxed(t) ==
    /\ msgView' = 1
    /\ msgUnseen' = EverRead

\* Ordering::Release on store: publishes what t knows.
ReleaseStore(t) ==
    /\ msgView' = view[t]
    /\ msgUnseen' = unseen[t]

\* ---------------------------------------------------------------- init
\* Sum of q over the threads 1..n.
RECURSIVE Sum(_, _)
Sum(q, n) == IF n = 0 THEN 0 ELSE q[n] + Sum(q, n - 1)

\* The workloads of `total` operations: at most MaxOps per thread.  Threads
\* are interchangeable, so the busier threads come first.
Workloads(total) ==
    {q \in [Threads -> 0..MaxOps] :
        /\ Sum(q, NThreads) = total
        /\ \A t \in Threads : t < NThreads => q[t] >= q[t + 1]}

\* RwLock::new(InitialValue), shared by threads that have not started.  The
\* threads are going to perform one of the workloads `quotas`; the state word
\* starts at one of `words` (0 after new).
InitFrom(quotas, words) ==
    /\ quota \in quotas
    /\ state \in words
    /\ hist = <<InitialValue>>
    /\ msgView = 1
    /\ view = [t \in Threads |-> 1]
    /\ msgUnseen = {}
    /\ unseen = [t \in Threads |-> {}]
    /\ raced = FALSE
    /\ pc = [t \in Threads |-> "idle"]
    /\ s = [t \in Threads |-> 0]
    /\ tmp = [t \in Threads |-> 0]
    /\ snap = [t \in Threads |-> -1]
    /\ ops = [t \in Threads |-> 0]
    /\ wr = [t \in Threads |-> 0]
    /\ blockers = [t \in Threads |-> {}]
    /\ found = [t \in Threads |-> 0]
    /\ committed = InitialValue

InitWith(total) == InitFrom(Workloads(total), {0})

\* Holders of the live guards that conflict with a read / a write called now
\* by t.  A guard is live from the return of read / write until its drop is
\* entered.
ReadConflicts(t) == Writers \ {t}
WriteConflicts(t) == (Readers \cup Writers) \ {t}

\* The guard of u is dropped: it is no longer one of the guards a caller found
\* live.
Unblock(u) == [t \in Threads |-> blockers[t] \ {u}]

\* ---------------------------------------------------------------- read
\* Where read goes with a freshly observed s: the loop body's first branch
\* (s < u32::MAX) or the wait.
ReadBranch(v) == IF v < WRITER_SENTINEL THEN "r_loop" ELSE "r_wait"

\* let mut s = self.state.load(Relaxed)
ReadCall(t) ==
    /\ pc[t] = "idle"
    /\ ops[t] < quota[t]
    /\ s' = [s EXCEPT ![t] = state]
    /\ pc' = [pc EXCEPT ![t] = ReadBranch(state)]
    /\ blockers' = [blockers EXCEPT ![t] = ReadConflicts(t)]
    /\ found' = [found EXCEPT ![t] = Cardinality(ReadConflicts(t))]
    /\ UNCHANGED <<quota, state, hist, msgView, view, msgUnseen, unseen, raced, tmp, snap, ops, wr, committed>>

\* Mutant of ReadCasOk: read only takes a lock nobody holds,
\* compare_exchange_weak(0, 1, ..).
ReadCasOkExclusive(t) ==
    /\ state = 0
    /\ state' = 1
    /\ Acquire(t)
    /\ pc' = [pc EXCEPT ![t] = "r_held"]
    /\ UNCHANGED s

\* Mutant of ReadCasOk: a read defers to a writer that is waiting, it takes
\* the lock only when no thread is inside write.
ReadCasOkDefers(t) ==
    /\ state = s[t]
    /\ \A w \in Threads : pc[w] \notin {"w_cas", "w_spur", "w_wait", "w_parked"}
    /\ state' = (s[t] + 1) % 2^StateBits
    /\ Acquire(t)
    /\ pc' = [pc EXCEPT ![t] = "r_held"]
    /\ UNCHANGED s

\* compare_exchange_weak(s, s + 1, Acquire, Relaxed) succeeding: the guard is
\* returned.
ReadCasOk(t) ==
    /\ state = s[t]
    /\ state' = (s[t] + 1) % 2^StateBits
    /\ Acquire(t)
    /\ pc' = [pc EXCEPT ![t] = "r_held"]
    /\ UNCHANGED s

\* The same compare_exchange_weak failing, because the word differs or
\* spuriously: s = e.
ReadCasFail(t) ==
    /\ s' = [s EXCEPT ![t] = state]
    /\ pc' = [pc EXCEPT ![t] = ReadBranch(state)]
    /\ UNCHANGED <<state, view, unseen>>

\* Mutant of ReadAssert: no assertion, read goes on to its
\* compare_exchange_weak(s, s + 1, ..) whatever s is.
ReadAssertOff(t) == ReadCasOk(t) \/ ReadCasFail(t)

\* assert!(s != u32::MAX - 1, "too many readers") failing: read panics.  What
\* a panic does is the build's choice of panic strategy: it unwinds the
\* calling thread, which ends while the others go on, or (panic = "abort") it
\* aborts the process, which ends every thread.
ReadAssert(t) ==
    /\ \/ pc' = [pc EXCEPT ![t] = "panicked"]
       \/ pc' = [u \in Threads |-> "aborted"]
    /\ UNCHANGED <<state, view, unseen, s>>

\* The body of `if s < u32::MAX`: the assertion, then the compare_exchange_weak.
\* (With fewer than u32::MAX - 1 guards alive the assertion cannot fail.)
ReadCas(t) ==
    /\ pc[t] = "r_loop"
    /\ s[t] < WRITER_SENTINEL
    /\ IF s[t] = WRITER_SENTINEL - 1
         THEN ReadAssert(t)
         ELSE ReadCasOk(t) \/ ReadCasFail(t)
    /\ UNCHANGED <<quota, found, hist, msgView, msgUnseen, raced, tmp, snap, ops, wr, blockers, committed>>

\* Mutant of ReadWait: a wait that parks without comparing the word with the
\* expected value.
ReadWaitBlind(t) ==
    /\ pc[t] = "r_wait"
    /\ pc' = [pc EXCEPT ![t] = "r_parked"]
    /\ UNCHANGED <<quota, found, state, hist, msgView, view, msgUnseen, unseen, raced, s, tmp, snap, ops, wr, blockers, committed>>

\* wait(&self.state, u32::MAX): parks if the word still is the sentinel,
\* returns at once otherwise.
ReadWait(t) ==
    /\ pc[t] = "r_wait"
    /\ pc' = [pc EXCEPT ![t] = IF state = WRITER_SENTINEL THEN "r_parked" ELSE "r_reload"]
    /\ UNCHANGED <<quota, found, state, hist, msgView, view, msgUnseen, unseen, raced, s, tmp, snap, ops, wr, blockers, committed>>

\* s = self.state.load(Relaxed) after wait returned.
ReadReload(t) ==
    /\ pc[t] \in {"r_reload", "r_spur"}
    /\ s' = [s EXCEPT ![t] = state]
    /\ pc' = [pc EXCEPT ![t] = ReadBranch(state)]
    /\ UNCHANGED <<quota, found, state, hist, msgView, view, msgUnseen, unseen, raced, tmp, snap, ops, wr, blockers, committed>>

\* Mutant of ReadDeref: ReadGuard implements DerefMut and the block stores
\* through it.
ReadDerefMut(t) ==
    /\ pc[t] = "r_held"
    /\ \E v \in Observable(t) :
          /\ snap' = [snap EXCEPT ![t] = v]
          /\ StoreValue(t, v + 1)
    /\ found' = [found EXCEPT ![t] = 0]
    /\ pc' = [pc EXCEPT ![t] = "r_seen"]
    /\ UNCHANGED <<quota, state, msgView, msgUnseen, unseen, s, tmp, ops, wr, blockers, committed>>

\* Deref for ReadGuard: the block takes its snapshot.
ReadDeref(t) ==
    /\ pc[t] = "r_held"
    /\ \E v \in Observable(t) : snap' = [snap EXCEPT ![t] = v]
    /\ LoadValue(t)
    /\ found' = [found EXCEPT ![t] = 0]
    /\ pc' = [pc EXCEPT ![t] = "r_seen"]
    /\ UNCHANGED <<quota, state, hist, msgView, view, s, tmp, ops, wr, blockers, committed>>

\* The operation is finished: back to the thread's loop.  (The count stops
\* at MaxOps, which a thread with more to do than that never gets past.)
Finish(t, isWrite) ==
    /\ ops' = [ops EXCEPT ![t] = IF ops[t] < MaxOps THEN ops[t] + 1 ELSE MaxOps]
    /\ wr' = [wr EXCEPT ![t] = IF isWrite THEN wr[t] + 1 ELSE wr[t]]
    /\ s' = [s EXCEPT ![t] = 0]
    /\ tmp' = [tmp EXCEPT ![t] = 0]

\* Mutant of ReadDrop: the drop resets the word as the WriteGuard's does,
\* state.store(0, Release), and wakes.
ReadDropResets(t) ==
    /\ pc[t] = "r_seen"
    /\ state' = 0
    /\ ReleaseStore(t)
    /\ blockers' = Unblock(t)
    /\ pc' = [pc EXCEPT ![t] = "rd_wake"]
    /\ UNCHANGED <<quota, found, hist, view, unseen, raced, s, tmp, snap, ops, wr, committed>>

\* Mutant of ReadDrop: fetch_sub is taken to return the new value, the test
\* is == 0, which the prior value of a live guard's word never is.
ReadDropTestsNew(t) ==
    /\ pc[t] = "r_seen"
    /\ state' = (state - 1) % 2^StateBits
    /\ ReleaseRmw(t)
    /\ blockers' = Unblock(t)
    /\ pc' = [pc EXCEPT ![t] = "idle"]
    /\ Finish(t, FALSE)
    /\ UNCHANGED <<quota, found, hist, view, unseen, raced, snap, committed>>

\* Mutant of ReadDrop: every drop calls wake_one, whatever fetch_sub returned.
ReadDropAlwaysWakes(t) ==
    /\ pc[t] = "r_seen"
    /\ state' = (state - 1) % 2^StateBits
    /\ ReleaseRmw(t)
    /\ blockers' = Unblock(t)
    /\ pc' = [pc EXCEPT ![t] = "rd_wake"]
    /\ UNCHANGED <<quota, found, hist, view, unseen, raced, s, tmp, snap, ops, wr, committed>>

\* Drop for ReadGuard: state.fetch_sub(1, Release), and the test == 1.
ReadDrop(t) ==
    /\ pc[t] = "r_seen"
    /\ state' = (state - 1) % 2^StateBits
    /\ ReleaseRmw(t)
    /\ blockers' = Unblock(t)
    /\ IF state = 1
         THEN /\ pc' = [pc EXCEPT ![t] = "rd_wake"]
              /\ UNCHANGED <<ops, wr, s, tmp>>
         ELSE /\ pc' = [pc EXCEPT ![t] = "idle"]
              /\ Finish(t, FALSE)
    /\ UNCHANGED <<quota, found, hist, view, unseen, raced, snap, committed>>

\* Where a thread continues when a wake releases it from its wait.
Woken(p) == IF p = "r_parked" THEN "r_reload" ELSE "w_cas"

\* Mutant of ReadDropWake: the last reader's drop wakes nobody.
ReadDropNoWake(t) ==
    /\ pc[t] = "rd_wake"
    /\ pc' = [pc EXCEPT ![t] = "idle"]
    /\ Finish(t, FALSE)
    /\ UNCHANGED <<quota, found, state, hist, msgView, view, msgUnseen, unseen, raced, snap, blockers, committed>>

\* Mutant of ReadDropWake: the last reader's drop calls wake_all.
ReadDropWakeAll(t) ==
    /\ pc[t] = "rd_wake"
    /\ pc' = [u \in Threads |->
                IF u = t THEN "idle"
                ELSE IF u \in Parked THEN Woken(pc[u]) ELSE pc[u]]
    /\ Finish(t, FALSE)
    /\ UNCHANGED <<quota, found, state, hist, msgView, view, msgUnseen, unseen, raced, snap, blockers, committed>>

\* wake_one(&self.state): releases one parked thread, if there is any.
ReadDropWake(t) ==
    /\ pc[t] = "rd_wake"
    /\ \/ /\ Parked = {}
          /\ pc' = [pc EXCEPT ![t] = "idle"]
       \/ \E u \in Parked : pc' = [pc EXCEPT ![t] = "idle", ![u] = Woken(pc[u])]
    /\ Finish(t, FALSE)
    /\ UNCHANGED <<quota, found, state, hist, msgView, view, msgUnseen, unseen, raced, snap, blockers, committed>>

\* ---------------------------------------------------------------- write
\* Mutant of WriteTry: write only looks for another writer ("Already
\* write-locked, so wait") and takes the lock from under the readers.
WriteTryIgnoresReaders(t) ==
    IF state # WRITER_SENTINEL
      THEN /\ state' = WRITER_SENTINEL
           /\ Acquire(t)
           /\ pc' = [pc EXCEPT ![t] = "w_held"]
           /\ UNCHANGED s
      ELSE /\ s' = [s EXCEPT ![t] = state]
           /\ pc' = [pc EXCEPT ![t] = "w_wait"]
           /\ UNCHANGED <<state, view, unseen>>

\* Mutant of WriteTry: compare_exchange_weak, which may fail and return the 0
\* it was looking for.
WriteTryWeak(t) ==
    \/ /\ state = 0
       /\ state' = WRITER_SENTINEL
       /\ Acquire(t)
       /\ pc' = [pc EXCEPT ![t] = "w_held"]
       /\ UNCHANGED s
    \/ /\ s' = [s EXCEPT ![t] = state]
       /\ pc' = [pc EXCEPT ![t] = "w_wait"]
       /\ UNCHANGED <<state, view, unseen>>

\* compare_exchange(0, u32::MAX, Acquire, Relaxed) of the while-let: Ok leaves
\* the loop with the guard, Err(s) goes on to wait(&self.state, s).
WriteTry(t) ==
    IF state = 0
      THEN /\ state' = WRITER_SENTINEL
           /\ Acquire(t)
           /\ pc' = [pc EXCEPT ![t] = "w_held"]
           /\ UNCHANGED s
      ELSE /\ s' = [s EXCEPT ![t] = state]
           /\ pc' = [pc EXCEPT ![t] = "w_wait"]
           /\ UNCHANGED <<state, view, unseen>>

\* write() called: the first compare_exchange.
WriteCall(t) ==
    /\ pc[t] = "idle"
    /\ ops[t] < quota[t]
    /\ WriteTry(t)
    /\ blockers' = [blockers EXCEPT ![t] = WriteConflicts(t)]
    /\ found' = [found EXCEPT ![t] = Cardinality(WriteConflicts(t))]
    /\ UNCHANGED <<quota, hist, msgView, msgUnseen, raced, tmp, snap, ops, wr, committed>>

\* Mutant of WriteRetry: a return of wait is taken for the lock being free,
\* the word is stored without the compare.
WriteRetryNoCompare(t) ==
    /\ pc[t] \in {"w_cas", "w_spur"}
    /\ state' = WRITER_SENTINEL
    /\ Acquire(t)
    /\ pc' = [pc EXCEPT ![t] = "w_held"]
    /\ UNCHANGED <<quota, found, hist, msgView, msgUnseen, raced, s, tmp, snap, ops, wr, blockers, committed>>

\* The compare_exchange again, after wait returned.
WriteRetry(t) ==
    /\ pc[t] \in {"w_cas", "w_spur"}
    /\ WriteTry(t)
    /\ UNCHANGED <<quota, found, hist, msgView, msgUnseen, raced, tmp, snap, ops, wr, blockers, committed>>

\* wait(&self.state, s): parks if the word still is s.
WriteWait(t) ==
    /\ pc[t] = "w_wait"
    /\ pc' = [pc EXCEPT ![t] = IF state = s[t] THEN "w_parked" ELSE "w_cas"]
    /\ UNCHANGED <<quota, found, state, hist, msgView, view, msgUnseen, unseen, raced, s, tmp, snap, ops, wr, blockers, committed>>

\* Deref for WriteGuard: `*g += 1` reads the value.
WriteDeref(t) ==
    /\ pc[t] = "w_held"
    /\ \E v \in Observable(t) : tmp' = [tmp EXCEPT ![t] = v]
    /\ LoadValue(t)
    /\ found' = [found EXCEPT ![t] = 0]
    /\ pc' = [pc EXCEPT ![t] = "w_write"]
    /\ UNCHANGED <<quota, state, hist, msgView, view, s, snap, ops, wr, blockers, committed>>

\* DerefMut for WriteGuard: `*g += 1` stores the sum.
WriteDerefMut(t) ==
    /\ pc[t] = "w_write"
    /\ StoreValue(t, tmp[t] + 1)
    /\ pc' = [pc EXCEPT ![t] = "w_drop"]
    /\ UNCHANGED <<quota, found, state, msgView, msgUnseen, unseen, s, tmp, snap, ops, wr, blockers, committed>>

\* Mutant of WriteDrop: the drop decrements as the ReadGuard's does,
\* state.fetch_sub(1, Release).
WriteDropDecrements(t) ==
    /\ pc[t] = "w_drop"
    /\ state' = (state - 1) % 2^StateBits
    /\ ReleaseRmw(t)
    /\ committed' = Value
    /\ blockers' = Unblock(t)
    /\ pc' = [pc EXCEPT ![t] = "w_wake"]
    /\ UNCHANGED <<quota, found, hist, view, unseen, raced, s, tmp, snap, ops, wr>>

\* Drop for WriteGuard: state.store(0, Release).
WriteDrop(t) ==
    /\ pc[t] = "w_drop"
    /\ state' = 0
    /\ ReleaseStore(t)
    /\ committed' = Value
    /\ blockers' = Unblock(t)
    /\ pc' = [pc EXCEPT ![t] = "w_wake"]
    /\ UNCHANGED <<quota, found, hist, view, unseen, raced, s, tmp, snap, ops, wr>>

\* Mutant of WriteDropWake: the drop calls wake_one.
WriteDropWakeOne(t) ==
    /\ pc[t] = "w_wake"
    /\ \/ /\ Parked = {}
          /\ pc' = [pc EXCEPT ![t] = "idle"]
       \/ \E u \in Parked : pc' = [pc EXCEPT ![t] = "idle", ![u] = Woken(pc[u])]
    /\ Finish(t, TRUE)
    /\ UNCHANGED <<quota, found, state, hist, msgView, view, msgUnseen, unseen, raced, snap, blockers, committed>>

\* wake_all(&self.inner.state): releases every parked thread.
WriteDropWake(t) ==
    /\ pc[t] = "w_wake"
    /\ pc' = [u \in Threads |->
                IF u = t THEN "idle"
                ELSE IF u \in Parked THEN Woken(pc[u]) ELSE pc[u]]
    /\ Finish(t, TRUE)
    /\ UNCHANGED <<quota, found, state, hist, msgView, view, msgUnseen, unseen, raced, snap, blockers, committed>>

\* ---------------------------------------------------------------- parking
\* wait returning without a wake (the parking facility permits it).
SpuriousWake(t) ==
    /\ pc[t] \in {"r_parked", "w_parked"}
    /\ pc' = [pc EXCEPT ![t] = IF pc[t] = "r_parked" THEN "r_spur" ELSE "w_spur"]
    /\ UNCHANGED <<quota, found, state, hist, msgView, view, msgUnseen, unseen, raced, s, tmp, snap, ops, wr, blockers, committed>>

\* ---------------------------------------------------------------- next
\* A step of thread t's own code.
Step(t) ==
    \/ ReadCall(t)
    \/ ReadCas(t)
    \/ ReadWait(t)
    \/ ReadReload(t)
    \/ ReadDeref(t)
    \/ ReadDrop(t)
    \/ ReadDropWake(t)
    \/ WriteCall(t)
    \/ WriteRetry(t)
    \/ WriteWait(t)
    \/ WriteDeref(t)
    \/ WriteDerefMut(t)
    \/ WriteDrop(t)
    \/ WriteDropWake(t)

Next == \E t \in Threads : Step(t) \/ SpuriousWake(t)

Init == InitWith(MaxTotal)

Spec == Init /\ [][Next]_vars

\* Fair scheduling of the threads; a spurious return of wait is never owed.
FairSpec == Init /\ [][Next]_vars /\ \A t \in Threads : WF_vars(Step(t))

\* The lock near its reader bound: before the threads start, a harness has
\* leaked ReadGuards (mem::forget(lock.read()), safe code), none (as in Init)
\* or so many that the threads' reads can reach the bound.  A leaked guard is
\* never dropped, so the state word keeps counting it.
OverflowStarts == {0} \cup ((WRITER_SENTINEL - MaxTotal) .. (WRITER_SENTINEL - 1))

OverflowInit == InitFrom(Workloads(MaxTotal), OverflowStarts)

OverflowSpec == OverflowInit /\ [][Next]_vars

\* A stream of readers against one writer.  Thread StarvedWriter calls
\* write, the two threads after it call read over and over (two readers are
\* what it takes to keep a guard alive at all times): each of the three has
\* more operations to do than it ever completes.  The schedule is one the lock allows and that
\* suits the readers: the writer makes its call once a reader holds the lock,
\* and a reader drops its guard when another reader holds one too, which it
\* does sooner or later (the strong fairness of StarveSpec).
StarvedWriter == 1

StarveReaders == {StarvedWriter + 1, StarvedWriter + 2}

StarveInit ==
    InitFrom({[t \in Threads |->
                 IF t \in StarveReaders \cup {StarvedWriter} THEN MaxOps + 1 ELSE 0]}, {0})

StarveStep(t) ==
    \/ /\ t = StarvedWriter
       /\ state # 0
       /\ WriteCall(t)
    \/ /\ t = StarvedWriter
       /\ WriteWait(t) \/ WriteRetry(t)
    \/ /\ t # StarvedWriter
       /\ ReadCall(t) \/ ReadCas(t) \/ ReadDeref(t)
    \/ /\ t # StarvedWriter
       /\ state >= 2
       /\ ReadDrop(t)

StarveNext == \E t \in Threads : StarveStep(t) \/ SpuriousWake(t)

StarveSpec ==
    StarveInit /\ [][StarveNext]_vars /\ \A t \in Threads : SF_vars(StarveStep(t))

\* One operation more than in Init, so that four threads can be inside the
\* lock at once: a writer between its store and its wake_all, a reader and a
\* writer parked, and the last reader dropping its guard.
WakeInit == InitWith(MaxTotal + 1)

WakeSpec == WakeInit /\ [][Next]_vars

\* ---------------------------------------------------------------- claims
\* Positions inside read / write before the guard is returned.
Acquiring == {"r_loop", "r_wait", "r_parked", "r_reload", "r_spur",
              "w_cas", "w_spur", "w_wait", "w_parked"}

\* Positions of a guard's drop between its update of the state word and its
\* wake call.
Waking == {"rd_wake", "w_wake"}

Holds(t) == HoldsRead(t) \/ HoldsWrite(t)

AllDone == \A t \in Threads : pc[t] = "idle" /\ ops[t] = quota[t]

\* The step is taken by thread t.
StepOf(t) == pc'[t] # pc[t] /\ \A u \in Threads \ {t} : pc'[u] = pc[u] \/ pc[u] \in {"r_parked", "w_parked"}

\* C1: mutual exclusion: a live WriteGuard never coexists with another live
\* guard, be it a second WriteGuard or a ReadGuard.
MutualExclusion ==
    \A w \in Writers : Writers = {w} /\ Readers = {}

\* C1 witness: a WriteGuard is live while a reader and another writer are
\* parked waiting for it.
ExclusionWitness ==
    \E w, r, x \in Threads :
        HoldsWrite(w) /\ pc[r] = "r_parked" /\ pc[x] = "w_parked"

\* The state word equals the guard population.
StateMatches ==
    /\ state = 0 <=> (Readers = {} /\ Writers = {})
    /\ (0 < state /\ state < WRITER_SENTINEL) <=> (Readers # {} /\ Writers = {})
    /\ state = WRITER_SENTINEL <=> (Cardinality(Writers) = 1 /\ Readers = {})
    /\ Writers = {} => state = Cardinality(Readers)

\* C2: the state word is 0 after new, and in every reachable state it is 0
\* exactly when no guard is live, the number of live ReadGuards when readers
\* hold, and WRITER_SENTINEL exactly when one WriteGuard and no ReadGuard is
\* live.
StateWordIsPopulation == (state = 0) /\ []StateMatches

\* C2 witness: three ReadGuards are live and the word is 3.
PopulationWitness == Cardinality(Readers) = 3 /\ state = 3

\* C3: a guard is returned only after every conflicting guard that was live
\* at the call has been dropped: all of the readers a writer found, and the
\* writer a reader found.
WaitsForHolders == \A t \in Threads : Holds(t) => blockers[t] = {}

\* C3 witness: a writer that found two ReadGuards live at its call has
\* obtained its WriteGuard.
WaitsWitness == \E t \in Threads : pc[t] = "w_held" /\ found[t] = 2

\* C4: readers do not exclude each other: a read that is at its
\* compare-exchange with the current word s = n < WRITER_SENTINEL - 1, n
\* ReadGuards being live, can take its guard in that very step, every one of
\* the n guards staying live.
SharedConcurrency ==
    \A t \in Threads :
        (pc[t] = "r_loop" /\ s[t] = state /\ s[t] < WRITER_SENTINEL - 1)
            => ENABLED (/\ ReadCas(t)
                        /\ HoldsRead(t)'
                        /\ Readers' = Readers \cup {t}
                        /\ state' = state + 1)

\* C4 witness: two ReadGuards are live at once, and a third read is about to
\* join them.
SharedWitness ==
    \E t \in Threads :
        /\ Cardinality(Readers) >= 2
        /\ pc[t] = "r_loop"
        /\ s[t] = state

\* C5: visibility: what is observed through a guard is the value left by the
\* most recent WriteGuard dropped before the guard was obtained (the initial
\* value if there was none); the holder's view of the value is never stale.
Visibility ==
    \A t \in Threads :
        /\ ~raced
        /\ Holds(t) => view[t] = Len(hist)
        /\ pc[t] = "r_seen" => snap[t] = committed
        /\ pc[t] = "w_write" => tmp[t] = committed

\* C5 witness: a reader observes, through its guard, a value that a writer
\* on another thread stored and released.
VisibilityWitness ==
    \E t \in Threads : pc[t] = "r_seen" /\ snap[t] = InitialValue + 2 /\ wr[t] = 0

\* C6: the inner value changes only in a step of the thread that holds the
\* WriteGuard, and it is read only in a step of a thread that holds a guard;
\* every other step (read, a failed attempt, parking, waking, a ReadGuard's
\* drop) leaves it as it is.
ValueFrame ==
    [][/\ hist' # hist => \E t \in Threads : HoldsWrite(t) /\ StepOf(t)
       /\ \A t \in Threads :
            (snap'[t] # snap[t] \/ (tmp'[t] # tmp[t] /\ pc'[t] = "w_write"))
                => Holds(t) /\ StepOf(t)
       /\ (\E t \in Threads : ~HoldsWrite(t) /\ StepOf(t)) => hist' = hist]_vars

\* C6 witness: the holder of the WriteGuard has changed the value while
\* another thread is parked in read.
FrameWitness ==
    \E t, r \in Threads :
        pc[t] = "w_drop" /\ Value # InitialValue /\ pc[r] = "r_parked"

\* C7: no lost updates: when every thread has finished, the value is the
\* initial value plus the number of increments performed; and the successive
\* snapshots a thread takes under read never decrease.
NoLostUpdates ==
    /\ [](AllDone => /\ Value = InitialValue + Sum(wr, NThreads)
                     /\ Len(hist) = 1 + Sum(wr, NThreads))
    /\ [][\A t \in Threads : snap'[t] >= snap[t]]_vars

\* C7 witness: all threads have finished, two increments were made by
\* writers on different threads and a reader took a snapshot in between.
UpdatesWitness ==
    /\ AllDone
    /\ Sum(wr, NThreads) = 2
    /\ \E t, u \in Threads : wr[t] = 1 /\ wr[u] = 1 /\ t # u
    /\ \E t \in Threads : snap[t] = InitialValue + 1

\* C8: progress: under fair scheduling, with a bounded number of acquisitions
\* per thread and every guard dropped, every read and every write that is
\* called eventually returns its guard: no thread stays inside read or write
\* (or panics there), so every thread gets through all of its operations.
Progress == <>AllDone

\* C8 witness: a writer is parked while a ReadGuard is live, and a reader has
\* yet to start.
ProgressWitness ==
    \E t, r \in Threads :
        /\ pc[t] = "w_parked"
        /\ HoldsRead(r)
        /\ \E u \in Threads \ {t, r} : pc[u] = "idle" /\ ops[u] < quota[u]

\* C9: no missed wake-up: no thread is parked while the lock is unlocked, no
\* drop is between its update and its wake, and no other thread is awake
\* inside an acquisition; and the unfinished threads are never all parked.
NoMissedWake ==
    /\ \A t \in Parked :
          \/ state # 0
          \/ \E u \in Threads : pc[u] \in Waking
          \/ \E u \in Threads \ {t} : pc[u] \in Acquiring \ {"r_parked", "w_parked"}
    /\ Parked # {} =>
          \E t \in Threads \ Parked : ~(pc[t] = "idle" /\ ops[t] = quota[t])

\* C9 witness: a writer is parked, the word is 0 and the only thing that is
\* going to release it is the wake of a drop in progress.
MissedWakeWitness ==
    \E t \in Threads :
        /\ pc[t] = "w_parked"
        /\ state = 0
        /\ \A u \in Threads \ {t} : pc[u] \notin Acquiring
        /\ Cardinality({u \in Threads : pc[u] \in Waking}) = 1

\* C10: spurious wake tolerance: wait may return at any time without a wake,
\* and still a WriteGuard never coexists with another guard and the word
\* equals the guard population: a thread that returned from wait obtains its
\* guard only in a step that finds the word free for it.
SpuriousWakeTolerance ==
    /\ [](MutualExclusion /\ StateMatches)
    /\ [][\A t \in Threads :
            /\ (pc[t] = "w_spur" /\ HoldsWrite(t)') => state = 0
            /\ pc[t] = "r_spur" => ~HoldsRead(t)'
            /\ (pc[t] = "r_loop" /\ HoldsRead(t)') => state = s[t] /\ state < WRITER_SENTINEL]_vars

\* C10 witness: wait returned spuriously to a writer and to a reader while a
\* WriteGuard is live.
SpuriousWitness ==
    \E w, t, r \in Threads :
        HoldsWrite(w) /\ pc[t] = "w_spur" /\ pc[r] = "r_spur"

\* ---- C11: a read that observes WRITER_SENTINEL - 1 in the state word panics
\* with "too many readers": it returns no guard and leaves the state word as
\* it is, and the thread (or, when panics abort, the process) is over.  So no
\* read ever takes the state word to WRITER_SENTINEL: only a write that finds
\* 0 stores it.
AtReaderBound(t) == pc[t] = "r_loop" /\ s[t] = WRITER_SENTINEL - 1

Over == {"panicked", "aborted"}

ReaderOverflow ==
    /\ [][\A t \in Threads : AtReaderBound(t) /\ pc'[t] # pc[t] =>
            pc'[t] \in Over /\ state' = state]_vars
    /\ [][\A t \in Threads : pc[t] \in Over => pc'[t] \in Over]_vars
    /\ [][state' = WRITER_SENTINEL /\ state # WRITER_SENTINEL =>
            state = 0 /\ \E t \in Threads : pc[t] \in {"idle", "w_cas", "w_spur"} /\ HoldsWrite(t)']_vars

\* A read has panicked at the bound while another thread holds the last guard
\* the bound allows.
OverflowWitness ==
    \E t, u \in Threads :
        /\ pc[t] = "panicked"
        /\ HoldsRead(u)
        /\ state = WRITER_SENTINEL - 1

\* C11 as stated: the read at the bound aborts the process, so every thread
\* is over with it.
OverflowAbortsProcess ==
    [][\A t \in Threads : AtReaderBound(t) /\ pc'[t] # pc[t] =>
          state' = state /\ \A u \in Threads : pc'[u] = "aborted"]_vars

\* The threads a step releases from wait by a wake call.
Released == {u \in Parked : pc'[u] = Woken(pc[u])}

\* The step is the wake_one of t's ReadGuard drop.
WakeOneBy(t) == pc[t] = "rd_wake" /\ pc'[t] = "idle"

\* ---- C13: the wake_one of the ReadGuard drop that took the state word from
\* 1 to 0 wakes exactly one parked thread when there is any, never more.  The
\* thread is a parked writer, unless a reader is parked too: one that a writer
\* holding the lock since the decrement has sent to sleep, or one that a
\* WriteGuard drop has not reached with its wake_all yet.  Then wake_one may
\* go to that reader, and a wake_all is still to come for the writers.
FinalReaderWakesOne ==
    [][\A t \in Threads : WakeOneBy(t) =>
          /\ Cardinality(Released) <= 1
          /\ Parked # {} => Cardinality(Released) = 1
          /\ \A u \in Released :
                pc[u] = "r_parked" =>
                    \E x \in Threads : HoldsWrite(x) \/ pc[x] = "w_wake"]_vars

\* The last reader is about to call wake_one while a reader and a writer are
\* both parked.
WakeOneWitness ==
    \E t, r, w \in Threads :
        /\ pc[t] = "rd_wake"
        /\ pc[r] = "r_parked"
        /\ pc[w] = "w_parked"

\* C13 as stated: with writers parked, the wake_one wakes one thread and it is
\* a parked writer.
FinalReaderWakesWriter ==
    [][\A t \in Threads : WakeOneBy(t) /\ (\E w \in Threads : pc[w] = "w_parked") =>
          \E w \in Threads : pc[w] = "w_parked" /\ Released = {w}]_vars

\* The step is the fetch_sub of t's ReadGuard drop.
ReadDropBy(t) == pc[t] = "r_seen" /\ pc'[t] \in {"rd_wake", "idle"}

\* ---- C14: the drop of a ReadGuard takes exactly 1 off the state word, and
\* goes on to wake_one exactly when the word was 1 before; a drop that leaves
\* readers behind wakes nobody, and nobody is woken but by a drop's wake call.
ReadGuardDrop ==
    /\ [][\A t \in Threads : ReadDropBy(t) =>
            /\ state' = state - 1
            /\ pc'[t] = "rd_wake" <=> state = 1
            /\ pc'[t] = "idle" <=> state # 1
            /\ Released = {}]_vars
    /\ [][Released # {} => \E t \in Threads : pc[t] \in Waking /\ pc'[t] = "idle"]_vars

\* The last reader has taken the word to 0 and is about to wake the writer
\* that parked on it, after another reader dropped its guard without a wake.
ReadDropWitness ==
    \E t, u, w \in Threads :
        /\ pc[t] = "rd_wake"
        /\ pc[w] = "w_parked"
        /\ s[w] = 2
        /\ pc[u] = "idle" /\ ops[u] = 1 /\ snap[u] # -1

\* A writer holds the lock or is between the store and the wake_all of its
\* guard's drop.
WriterAbout == \E x \in Threads : HoldsWrite(x) \/ pc[x] = "w_wake"

\* ---- C15: the drop of a WriteGuard first stores 0 in the state word,
\* releasing nobody yet, and then calls wake_all, which releases every thread
\* parked at that moment: none is parked after it.  So a thread that parked on
\* the sentinel is parked only while some writer has its wake_all still to
\* come.
WriterRelease ==
    /\ [][\A t \in Threads : pc[t] = "w_drop" /\ pc'[t] # "w_drop" =>
            state' = 0 /\ pc'[t] = "w_wake" /\ Released = {}]_vars
    /\ [][\A t \in Threads : pc[t] = "w_wake" /\ pc'[t] # "w_wake" =>
            state' = state /\ Released = Parked /\ Parked' = {}]_vars
    /\ [](\A u \in Parked : s[u] = WRITER_SENTINEL => WriterAbout)

\* A writer has stored 0 and is about to call wake_all with a reader and a
\* writer parked.
ReleaseWitness ==
    \E t, r, w \in Threads :
        /\ pc[t] = "w_wake"
        /\ state = 0
        /\ pc[r] = "r_parked"
        /\ pc[w] = "w_parked"

\* The thread that takes the step goes from a position in `from` to `to`.
Moves(from, to) == \E t \in Threads : pc[t] \in from /\ pc'[t] = to

\* ---- C16: the state word changes only in four ways: a successful read adds
\* 1 to a reader count, the drop of a ReadGuard takes 1 off a positive reader
\* count, a successful write takes 0 to WRITER_SENTINEL, and the drop of a
\* WriteGuard takes WRITER_SENTINEL to 0.  A positive reader count never
\* becomes WRITER_SENTINEL and WRITER_SENTINEL never becomes a positive count.
StateTransitions ==
    [][state' # state =>
          \/ /\ state < WRITER_SENTINEL - 1
             /\ state' = state + 1
             /\ Moves({"r_loop"}, "r_held")
          \/ /\ state >= 1 /\ state < WRITER_SENTINEL
             /\ state' = state - 1
             /\ Moves({"r_seen"}, "rd_wake") \/ Moves({"r_seen"}, "idle")
          \/ /\ state = 0
             /\ state' = WRITER_SENTINEL
             /\ Moves({"idle", "w_cas", "w_spur"}, "w_held")
          \/ /\ state = WRITER_SENTINEL
             /\ state' = 0
             /\ Moves({"w_drop"}, "w_wake")]_vars

\* The word has been through all four: a writer holds after a guard of each
\* kind was taken and dropped.
TransitionsWitness ==
    \E t, u, w \in Threads :
        /\ HoldsWrite(t)
        /\ wr[u] = 1
        /\ snap[w] # -1 /\ pc[w] = "idle"

\* ---- C17: write calls wait(&state, s) only with the s its compare_exchange
\* from 0 failed with, which is the word it found and never 0, so a writer
\* never parks expecting 0.  wait returns only into the compare_exchange: the
\* writer takes the lock there if the word is 0 and goes back to wait if not.
WriterParksNonZero ==
    /\ [](\A t \in Threads : pc[t] \in {"w_wait", "w_parked"} => s[t] # 0)
    /\ [][\A t \in Threads : pc[t] # "w_wait" /\ pc'[t] = "w_wait" =>
            /\ pc[t] \in {"idle", "w_cas", "w_spur"}
            /\ state # 0 /\ state' = state /\ s'[t] = state]_vars
    /\ [][\A t \in Threads : pc[t] \in {"w_wait", "w_parked"} /\ pc'[t] # pc[t] =>
            pc'[t] \in {"w_parked", "w_cas", "w_spur"}]_vars
    /\ [][\A t \in Threads : pc[t] \in {"w_cas", "w_spur"} /\ pc'[t] # pc[t] =>
            \/ state = 0 /\ state' = WRITER_SENTINEL /\ pc'[t] = "w_held"
            \/ state # 0 /\ state' = state /\ pc'[t] = "w_wait"]_vars

\* A writer is parked on the reader count its compare_exchange failed with,
\* and the word has since become 0.
ParksNonZeroWitness ==
    \E w \in Threads :
        /\ pc[w] = "w_parked"
        /\ s[w] = 2
        /\ state = 0

\* Positions inside write before the guard is returned.
InWrite == {"w_cas", "w_spur", "w_wait", "w_parked"}

\* ---- C18: writers are owed nothing.  The executions of StarveSpec are
\* executions of the lock in which every thread is scheduled fairly, and in
\* them the writer gets into write and never out of it: the state word is
\* not 0 at any of its compare_exchanges, because the readers keep a guard
\* alive between them.  A read does not defer to the waiting writer: with the
\* writer inside write, the read's compare_exchange_weak on the word it
\* loaded can succeed.
WriterStarvation ==
    /\ [][Next]_vars
    /\ \A t \in Threads : WF_vars(Step(t))
    /\ <>(pc[StarvedWriter] \in InWrite)
    /\ [](\A t \in Threads : ~HoldsWrite(t))
    /\ [](pc[StarvedWriter] \in {"w_cas", "w_spur"} => state # 0)
    /\ [](\A r \in Threads :
            pc[StarvedWriter] \in InWrite /\ pc[r] = "r_loop" /\ s[r] = state =>
                ENABLED (ReadCas(r) /\ HoldsRead(r)'))

\* The writer is back from wait for another compare_exchange, the word is
\* not 0, and every reader has been through the lock MaxOps times.
StarvationWitness ==
    /\ pc[StarvedWriter] = "w_cas"
    /\ state # 0
    /\ \A r \in StarveReaders : ops[r] = MaxOps

\* ---- C19: read calls wait only when it has seen WRITER_SENTINEL, which is
\* the value it tells wait to expect: the reader parks if the word is still
\* the sentinel and goes on to reload it if a writer's drop has stored 0 in
\* the meantime.  So whenever a reader is parked, a writer holds the lock or
\* has stored 0 and not called wake_all yet.
ReaderParksOnSentinel ==
    /\ [](\A r \in Threads : pc[r] \in {"r_wait", "r_parked"} => s[r] = WRITER_SENTINEL)
    /\ [][\A r \in Threads : pc[r] = "r_wait" /\ pc'[r] # "r_wait" =>
            IF state = WRITER_SENTINEL THEN pc'[r] = "r_parked" ELSE pc'[r] = "r_reload"]_vars
    /\ [](\A r \in Threads : pc[r] = "r_parked" => WriterAbout)

\* A writer has stored 0 and not called wake_all: one reader is still parked,
\* another is about to call wait and will not park.
ParksOnSentinelWitness ==
    \E r, q \in Threads :
        /\ pc[r] = "r_parked"
        /\ pc[q] = "r_wait"
        /\ state = 0

\* ---- C20: the fetch_sub of a ReadGuard drop finds the state word between 1
\* and WRITER_SENTINEL - 1, as the word is while a ReadGuard is alive: the
\* decrement never wraps 0 around to u32::MAX and never takes WRITER_SENTINEL
\* to WRITER_SENTINEL - 1.
ReaderDecrementInRange ==
    /\ [](\A t \in Threads : HoldsRead(t) => 1 <= state /\ state < WRITER_SENTINEL)
    /\ [][\A t \in Threads : ReadDropBy(t) =>
            /\ 1 <= state /\ state < WRITER_SENTINEL
            /\ state' = state - 1]_vars
    /\ [][state = 0 /\ state' = WRITER_SENTINEL => ~\E t \in Threads : ReadDropBy(t)]_vars
    /\ [][state = WRITER_SENTINEL => state' \in {WRITER_SENTINEL, 0}]_vars

\* A guard is about to be dropped with the reader count at its bound.
DecrementWitness ==
    \E t \in Threads :
        /\ pc[t] = "r_seen"
        /\ state = WRITER_SENTINEL - 1

====
